---------------------------- MODULE Spec2Model ----------------------------
(***************************************************************************)
(* Rendezvous (HRW) hashing, github.com/im-kulikov/hrw, file hrw.go.       *)
(*                                                                         *)
(* The library is stateless.  The state below is the memory of one caller: *)
(* the value it passes to the library (the slice the library reorders in   *)
(* place) and the record of the last call it made.  Every call of a public *)
(* function is one action.                                                 *)
(*                                                                         *)
(* A uint64 is a tuple of 8 bytes, least significant first, so that the    *)
(* 64-bit wraparound of weight is computed exactly.  A Go slice of length  *)
(* N is a function with domain 0..N-1.                                     *)
(***************************************************************************)
EXTENDS Naturals, Integers, Sequences, FiniteSets, TLC

VARIABLES kind, slice, hash, op, old, nodes, rule, err, swaps

(* The position of a run of sortByRule that is followed statement by        *)
(* statement: pc is "idle" (no such run), "outer" (at the test of the outer *)
(* loop), "inner" (at the test of the inner loop) or "done" (returned);     *)
(* loop_i, loop_j and done are its locals i, j and done.                     *)
VARIABLES pc, loop_i, loop_j, done

locals == <<pc, loop_i, loop_j, done>>

vars == <<kind, slice, hash, op, old, nodes, rule, err, swaps, locals>>

(* Largest slice length the caller builds. *)
MaxLen == 3

-----------------------------------------------------------------------------
(* uint64 arithmetic *)

(* the uint64 holding the small natural n (n < 2^31) *)
U64(n) == <<n % 256, (n \div 256) % 256, (n \div 65536) % 256, (n \div 16777216) % 256,
            0, 0, 0, 0>>

(* a ^ b on one bit-quad, bit by bit *)
XorNibble(a, b) ==
    ((a + b) % 2)
  + (((a \div 2) + (b \div 2)) % 2) * 2
  + (((a \div 4) + (b \div 4)) % 2) * 4
  + (((a \div 8) + (b \div 8)) % 2) * 8

XorTable == [a \in 0 .. 15 |-> [b \in 0 .. 15 |-> XorNibble(a, b)]]

(* a ^ b on one byte *)
XorByte(a, b) == XorTable[a \div 16][b \div 16] * 16 + XorTable[a % 16][b % 16]

(* x ^ y on uint64 *)
Xor64(x, y) ==
    <<XorByte(x[1], y[1]), XorByte(x[2], y[2]), XorByte(x[3], y[3]), XorByte(x[4], y[4]),
      XorByte(x[5], y[5]), XorByte(x[6], y[6]), XorByte(x[7], y[7]), XorByte(x[8], y[8])>>

(* x >> 33 on uint64: four whole bytes and one more bit *)
Shr33(x) ==
    <<(x[5] \div 2) + (x[6] % 2) * 128, (x[6] \div 2) + (x[7] % 2) * 128,
      (x[7] \div 2) + (x[8] % 2) * 128, x[8] \div 2,
      0, 0, 0, 0>>

RECURSIVE ColumnSum(_, _, _, _)
ColumnSum(x, c, k, i) ==
    IF i > k THEN 0 ELSE x[i] * c[k + 1 - i] + ColumnSum(x, c, k, i + 1)

RECURSIVE MulLimbs(_, _, _, _)
MulLimbs(x, c, k, carry) ==
    IF k > 8 THEN <<>>
    ELSE LET t == ColumnSum(x, c, k, 1) + carry
         IN  <<t % 256>> \o MulLimbs(x, c, k + 1, t \div 256)

(* x * c on uint64: the product modulo 2^64 (the carry out of byte 8 is dropped) *)
Mul64(x, c) == MulLimbs(x, c, 1, 0)

RECURSIVE LtFrom(_, _, _)
LtFrom(x, y, k) ==
    IF k = 0 THEN FALSE
    ELSE IF x[k] # y[k] THEN x[k] < y[k]
    ELSE LtFrom(x, y, k - 1)

(* x < y on uint64 *)
Lt64(x, y) == LtFrom(x, y, 8)

(* 0xff51afd7ed558ccd *)
MixC1 == <<205, 140, 85, 237, 215, 175, 81, 255>>

(* 0xc4ceb9fe1a85ec53 *)
MixC2 == <<83, 236, 133, 26, 254, 185, 206, 196>>

(* weight that mixes x before it combines it with y *)
weight_MixThenCombine(x, y) ==
    LET a1 == Xor64(x, Shr33(x))
        a2 == Mul64(a1, MixC1)
        a3 == Xor64(Xor64(a2, y), Shr33(a2))
        a4 == Mul64(a3, MixC2)
    IN  Xor64(a4, Shr33(a4))

weight(x, y) ==
    LET a0 == Xor64(x, y)
        a1 == Xor64(a0, Shr33(a0))
        a2 == Mul64(a1, MixC1)
        a3 == Xor64(a2, Shr33(a2))
        a4 == Mul64(a3, MixC2)
    IN  Xor64(a4, Shr33(a4))


-----------------------------------------------------------------------------
(* Go slices: functions over 0..N-1 *)

Len0(s) == Cardinality(DOMAIN s)

Empty == [i \in {} |-> 0]

(* append(s, v) *)
append(s, v) == s @@ (Len0(s) :> v)

SlicesOf(S, n) == UNION {[0 .. m - 1 -> S] : m \in 0 .. n}

-----------------------------------------------------------------------------
(* type hashed, its sort.Interface methods, and SortByWeight *)

(* Less with the comparison turned round: a descending order *)
Less_Descending(h, i, j) == Lt64(h.weight[h.sorted[j]], h.weight[h.sorted[i]])

Less(h, i, j) == Lt64(h.weight[h.sorted[i]], h.weight[h.sorted[j]])

(* Swap that loses the write of entry j *)
Swap_LostWrite(h, i, j) == [h EXCEPT !.sorted = [h.sorted EXCEPT ![i] = h.sorted[j]]]

Swap(h, i, j) ==
    [h EXCEPT !.sorted = [h.sorted EXCEPT ![i] = h.sorted[j], ![j] = h.sorted[i]]]

(* every value of h that calls of Swap produce from the values in S *)
RECURSIVE SwapClosure(_)
SwapClosure(S) ==
    LET T == S \cup UNION {{Swap(x, i, j) : i, j \in 0 .. x.length - 1} : x \in S}
    IN  IF T = S THEN S ELSE SwapClosure(T)

(* sort.Sort(h): it reads h through Len and Less and changes it through Swap *)
(* only, and returns when no entry is Less than its predecessor.  The sort   *)
(* is not guaranteed to be stable: entries neither of which is Less than the *)
(* other come out in any order, so the result is any one of the values       *)
(* below.                                                                    *)
sortSort(h) ==
    {x \in SwapClosure({h}) : \A k \in 1 .. x.length - 1 : ~Less(x, k, k - 1)}

(* the loop of SortByWeight: for i, node := range nodes *)
RECURSIVE SortByWeightLoop(_, _, _, _)
SortByWeightLoop(h, nodes_, hash_, i) ==
    IF i >= Len0(nodes_) THEN h
    ELSE SortByWeightLoop([h EXCEPT !.sorted = append(h.sorted, i),
                                    !.weight = append(h.weight, weight(nodes_[i], hash_))],
                          nodes_, hash_, i + 1)

SortByWeight(nodes_, hash_) ==
    LET l == Len0(nodes_)
        h == [length |-> l, sorted |-> Empty, weight |-> Empty]
    IN  {x.sorted : x \in sortSort(SortByWeightLoop(h, nodes_, hash_, 0))}

-----------------------------------------------------------------------------
(* Hash and the per-element hashes of SortSliceByValue *)

RECURSIVE Fold(_, _)
Fold(key, acc) ==
    IF key = <<>> THEN acc ELSE Fold(Tail(key), (acc * 31 + Head(key)) % 65521)

(* mmh3.New128, Write(key), Sum(nil): the 16-byte digest of the external      *)
(* MurmurHash3 library as its two big-endian halves.  The library is outside  *)
(* the repository; a fixed deterministic function of the key stands for it.   *)
Mmh3Sum(key) == <<U64(Fold(key, 7)), U64(Fold(key, 11) * 3 + Len(key))>>

Hash(key) == LET data == Mmh3Sum(key) IN weight(data[1], data[2])

RECURSIVE Digits(_)
Digits(n) == IF n < 10 THEN <<48 + n>> ELSE Digits(n \div 10) \o <<48 + (n % 10)>>

(* strconv.Itoa: the decimal text of n as ASCII bytes *)
Itoa(n) == IF n < 0 THEN <<45>> \o Digits(0 - n) ELSE Digits(n)

(* whether the dynamic type of element e implements Hasher *)
IsHasher(e) == e.type = "hashString"

(* hashString.Hash of the tests: the Hash of the string's bytes *)
HasherHash(e) == Hash(e.val)

-----------------------------------------------------------------------------
(* sortByRule *)

swap(s, i, j) == [s EXCEPT ![i] = s[j], ![j] = s[i]]

(* the inner loop: for j := rule[i]; !done[rule[j]]; j = rule[j] *)
RECURSIVE sortByRuleInner(_, _, _, _)
sortByRuleInner(st, rule_, i, j) ==
    IF ~st.done[rule_[j]]
    THEN sortByRuleInner([slice |-> swap(st.slice, i, j),
                          done  |-> [st.done EXCEPT ![j] = TRUE],
                          swaps |-> st.swaps + 1],
                         rule_, i, rule_[j])
    ELSE st

(* the outer loop: for i := 0; i < length; i++ *)
RECURSIVE sortByRuleOuter(_, _, _, _)
sortByRuleOuter(st, length, rule_, i) ==
    IF i >= length THEN st
    ELSE IF st.done[i] THEN sortByRuleOuter(st, length, rule_, i + 1)
    ELSE sortByRuleOuter(
             sortByRuleInner([st EXCEPT !.done[i] = TRUE], rule_, i, rule_[i]),
             length, rule_, i + 1)

(* sortByRule(swap, length, rule) where swap exchanges two elements of s:  *)
(* the slice after the call and the number of calls of swap.               *)
sortByRule(s, length, rule_) ==
    LET st == sortByRuleOuter([slice |-> s,
                               done  |-> [i \in 0 .. length - 1 |-> FALSE],
                               swaps |-> 0],
                              length, rule_, 0)
    IN  [slice |-> st.slice, swaps |-> st.swaps]

-----------------------------------------------------------------------------
(* SortSliceByValue and SortSliceByIndex *)

SliceKinds == {"[]uint64", "[]int", "[]string", "[]byte", "[]hashString", "[]interface"}

(* what a call reports: err is "nil", the text of the returned error, or   *)
(* "panic"; slice is the caller's slice after the call; nodes and rule are *)
(* the argument and the result of the call's SortByWeight (empty when it   *)
(* is not reached); swaps counts the calls of swap.                        *)
Outcome(e, s, n, r, c) == [err |-> e, slice |-> s, nodes |-> n, rule |-> r, swaps |-> c]

(* the hash of element i in the three branches of the type switch *)
ElemHash(k, e) ==
    CASE k = "[]int"    -> Hash(Itoa(e.val))
      [] k = "[]string" -> Hash(e.val)
      [] OTHER          -> HasherHash(e)

(* the loops of the type switch: rule = append(rule, weight(hash, ...)) *)
RECURSIVE SortSliceByValueLoop(_, _, _, _, _)
SortSliceByValueLoop(rule_, k, s, hash_, i) ==
    IF i >= Len0(s) THEN rule_
    ELSE SortSliceByValueLoop(append(rule_, weight(hash_, ElemHash(k, s[i]))),
                              k, s, hash_, i + 1)

(* the loop of SortSliceByIndex: rule = append(rule, i) *)
RECURSIVE SortSliceByIndexLoop(_, _, _)
SortSliceByIndexLoop(rule_, length, i) ==
    IF i >= length THEN rule_
    ELSE SortSliceByIndexLoop(append(rule_, U64(i)), length, i + 1)

(* SortSliceByValue that returns without an error for an unknown type *)
SortSliceByValue_SilentUnknown(k, s, hash_) ==
    IF k = "nil"
    THEN \* reflect.TypeOf(nil) is the nil Type: t.Kind() dereferences nil
         {Outcome("panic", s, Empty, Empty, 0)}
    ELSE IF k \notin SliceKinds
    THEN {Outcome("must be slice", s, Empty, Empty, 0)}
    ELSE LET length == Len0(s) IN
    IF length = 0
    THEN {Outcome("nil", s, Empty, Empty, 0)}
    ELSE IF k \notin {"[]int", "[]string"} /\ ~IsHasher(s[0])
    THEN {Outcome("nil", s, Empty, Empty, 0)}
    ELSE IF k \notin {"[]int", "[]string"} /\ \E i \in 0 .. length - 1 : ~IsHasher(s[i])
    THEN \* the unchecked type assertion .(Hasher) in the loop
         {Outcome("panic", s, Empty, Empty, 0)}
    ELSE LET w == SortSliceByValueLoop(Empty, k, s, hash_, 0)
         IN  {LET res == sortByRule(s, length, r)
              IN  Outcome("nil", res.slice, w, r, res.swaps) : r \in SortByWeight(w, hash_)}

(* SortSliceByValue that tests for the empty slice after the type switch *)
SortSliceByValue_LateEmptyCheck(k, s, hash_) ==
    IF k = "nil"
    THEN \* reflect.TypeOf(nil) is the nil Type: t.Kind() dereferences nil
         {Outcome("panic", s, Empty, Empty, 0)}
    ELSE IF k \notin SliceKinds
    THEN {Outcome("must be slice", s, Empty, Empty, 0)}
    ELSE LET length == Len0(s) IN
    IF length = 0 /\ k \notin {"[]int", "[]string"}
    THEN \* val.Index(0) on an empty slice
         {Outcome("panic", s, Empty, Empty, 0)}
    ELSE IF length = 0
    THEN {Outcome("nil", s, Empty, Empty, 0)}
    ELSE IF k \notin {"[]int", "[]string"} /\ ~IsHasher(s[0])
    THEN {Outcome("unknown type", s, Empty, Empty, 0)}
    ELSE IF k \notin {"[]int", "[]string"} /\ \E i \in 0 .. length - 1 : ~IsHasher(s[i])
    THEN \* the unchecked type assertion .(Hasher) in the loop
         {Outcome("panic", s, Empty, Empty, 0)}
    ELSE LET w == SortSliceByValueLoop(Empty, k, s, hash_, 0)
         IN  {LET res == sortByRule(s, length, r)
              IN  Outcome("nil", res.slice, w, r, res.swaps) : r \in SortByWeight(w, hash_)}

(* The set of the outcomes of SortSliceByValue(slice, hash) for a value of *)
(* dynamic type k.                                                         *)
SortSliceByValue(k, s, hash_) ==
    IF k = "nil"
    THEN \* reflect.TypeOf(nil) is the nil Type: t.Kind() dereferences nil
         {Outcome("panic", s, Empty, Empty, 0)}
    ELSE IF k \notin SliceKinds
    THEN {Outcome("must be slice", s, Empty, Empty, 0)}
    ELSE LET length == Len0(s) IN
    IF length = 0
    THEN {Outcome("nil", s, Empty, Empty, 0)}
    ELSE IF k \notin {"[]int", "[]string"} /\ ~IsHasher(s[0])
    THEN {Outcome("unknown type", s, Empty, Empty, 0)}
    ELSE IF k \notin {"[]int", "[]string"} /\ \E i \in 0 .. length - 1 : ~IsHasher(s[i])
    THEN \* the unchecked type assertion .(Hasher) in the loop
         {Outcome("panic", s, Empty, Empty, 0)}
    ELSE LET w == SortSliceByValueLoop(Empty, k, s, hash_, 0)
         IN  {LET res == sortByRule(s, length, r)
              IN  Outcome("nil", res.slice, w, r, res.swaps) : r \in SortByWeight(w, hash_)}

(* The set of the outcomes of SortSliceByIndex(slice, hash). *)
SortSliceByIndex(k, s, hash_) ==
    IF k \notin SliceKinds
    THEN \* reflect.ValueOf(slice).Len() panics on a value that is no slice
         {Outcome("panic", s, Empty, Empty, 0)}
    ELSE LET length == Len0(s)
             ids == SortSliceByIndexLoop(Empty, length, 0)
         IN  {LET res == sortByRule(s, length, r)
              IN  Outcome("nil", res.slice, ids, r, res.swaps) : r \in SortByWeight(ids, hash_)}

-----------------------------------------------------------------------------
(* The caller *)

Elem(t, v) == [type |-> t, val |-> v]

(* the element values the caller builds its slices from *)
ElemsOf(k) ==
    CASE k = "[]uint64"     -> {Elem("uint64", U64(1)), Elem("uint64", U64(2)), Elem("uint64", U64(3))}
      [] k = "[]int"        -> {Elem("int", 0), Elem("int", 7), Elem("int", 12)}
      [] k = "[]string"     -> {Elem("string", <<97>>), Elem("string", <<98>>), Elem("string", <<99>>)}
      [] k = "[]byte"       -> {Elem("uint8", 1), Elem("uint8", 2)}
      [] k = "[]hashString" -> {Elem("hashString", <<97>>), Elem("hashString", <<98>>)}
      [] k = "[]interface"  -> {Elem("hashString", <<97>>), Elem("int", 7), Elem("nil", 0)}
      [] OTHER              -> {}

(* the key seeds the caller uses *)
Hashes == {U64(1), U64(3), <<21, 205, 91, 7, 177, 104, 222, 58>>}

(* The caller holds an untyped nil, the int 10, or a slice of one of the   *)
(* element types; no call has been made.                                   *)
Init ==
    /\ kind \in SliceKinds \cup {"nil", "int"}
    /\ slice \in SlicesOf(ElemsOf(kind), MaxLen)
    /\ hash = U64(0)
    /\ op = "none"
    /\ old = slice
    /\ nodes = Empty
    /\ rule = Empty
    /\ err = "none"
    /\ swaps = 0
    /\ pc = "idle"
    /\ loop_i = 0
    /\ loop_j = 0
    /\ done = Empty

(* the state after a call of operation o with key seed h that reports out *)
Return(o, h, out) ==
    /\ op' = o
    /\ hash' = h
    /\ old' = slice
    /\ slice' = out.slice
    /\ nodes' = out.nodes
    /\ rule' = out.rule
    /\ err' = out.err
    /\ swaps' = out.swaps
    /\ UNCHANGED <<kind, locals>>

(* rule := SortByWeight(slice, h) on a caller's []uint64 *)
CallSortByWeight ==
    /\ err # "panic"
    /\ kind = "[]uint64"
    /\ \E h \in Hashes :
         LET ns == [i \in DOMAIN slice |-> slice[i].val]
         IN  \E r \in SortByWeight(ns, h) :
                Return("SortByWeight", h, Outcome("nil", slice, ns, r, 0))

CallSortSliceByValue ==
    /\ err # "panic"
    /\ \E h \in Hashes :
         \E out \in SortSliceByValue(kind, slice, h) :
            Return("SortSliceByValue", h, out)

CallSortSliceByIndex ==
    /\ err # "panic"
    /\ \E h \in Hashes :
         \E out \in SortSliceByIndex(kind, slice, h) :
            Return("SortSliceByIndex", h, out)

Next == CallSortByWeight \/ CallSortSliceByValue \/ CallSortSliceByIndex

Spec == Init /\ [][Next]_vars

-----------------------------------------------------------------------------
(* Properties *)

(* the ranking r holds each of 0..n-1 exactly once *)
IsRanking(r, n) ==
    /\ DOMAIN r = 0 .. n - 1
    /\ \A v \in 0 .. n - 1 : Cardinality({k \in DOMAIN r : r[k] = v}) = 1

(* the bijections of 0..n-1 *)
Perms(n) == {p \in [0 .. n - 1 -> 0 .. n - 1] : IsRanking(p, n)}

(* C1: for every nodes sequence of length N (duplicates and N = 0 included) *)
(* and every key seed, SortByWeight returns a sequence of length N that     *)
(* holds each integer of [0, N) exactly once.                               *)
C1_Bijective == op = "SortByWeight" => IsRanking(rule, Len0(nodes))

(* SortByWeight has ranked three nodes two of which are the same identifier *)
C1_Witness ==
    /\ op = "SortByWeight"
    /\ Len0(nodes) = 3
    /\ nodes[0] = nodes[2]
    /\ nodes[0] # nodes[1]

(* C2: the result r of SortByWeight is in ascending weight: for positions   *)
(* k < m, weight(nodes[r[k]], hash) <= weight(nodes[r[m]], hash).           *)
C2_Ascending ==
    op = "SortByWeight" =>
        \A k, m \in DOMAIN rule :
            k < m => ~Lt64(weight(nodes[rule[m]], hash), weight(nodes[rule[k]], hash))

(* SortByWeight has ranked three distinct nodes and moved every index *)
C2_Witness ==
    /\ op = "SortByWeight"
    /\ Len0(nodes) = 3
    /\ \A i \in DOMAIN rule : rule[i] # i
    /\ Lt64(weight(nodes[rule[0]], hash), weight(nodes[rule[2]], hash))

(* C3: SortSliceByIndex applies r = SortByWeight([0..N-1], hash) in the     *)
(* Direct convention: after the call position i holds the element that was  *)
(* at index r[i] before the call.                                           *)
C3_Direct ==
    (op = "SortSliceByIndex" /\ err = "nil") =>
        \A i \in DOMAIN slice : slice[i] = old[rule[i]]

(* C4: SortSliceByValue applies r = SortByWeight(w, hash) in the Inverse    *)
(* convention: after a successful call the element that was at position i   *)
(* before the call is at position r[i].                                     *)
C4_Inverse ==
    (op = "SortSliceByValue" /\ err = "nil") =>
        \A i \in DOMAIN rule : slice[rule[i]] = old[i]

(* C5: two slices that hold the same elements, of pairwise distinct         *)
(* weights, in different orders are left in the same final order by         *)
(* SortSliceByValue with the same key seed: whatever order p the other      *)
(* client held the elements of old in, its call ends with this slice.       *)
C5_Agreement ==
    (/\ op = "SortSliceByValue"
     /\ err = "nil"
     /\ \A i, j \in DOMAIN nodes : nodes[i] = nodes[j] => i = j) =>
        \A p \in Perms(Len0(old)) :
            \A out \in SortSliceByValue(kind, [i \in DOMAIN old |-> old[p[i]]], hash) :
                out.err = "nil" /\ out.slice = slice

(* C6: SortSliceByValue on a non-empty slice whose element type is neither  *)
(* int nor string and has no Hash method returns a non-nil error and leaves *)
(* every element where it was, with no swap.                                *)
C6_UnknownType ==
    (op = "SortSliceByValue" /\ kind \in {"[]byte", "[]uint64"} /\ Len0(old) > 0) =>
        /\ err \notin {"nil", "panic"}
        /\ slice = old
        /\ swaps = 0

(* SortSliceByValue has been called on three bytes *)
C6_Witness ==
    /\ op = "SortSliceByValue"
    /\ kind = "[]byte"
    /\ Len0(old) = 3
    /\ err = "unknown type"

(* C7: SortSliceByValue on an argument that is not a slice (an int, and     *)
(* also an untyped nil) returns a non-nil error, performs no swap and does  *)
(* not panic.                                                               *)
C7_MustBeSlice ==
    (op = "SortSliceByValue" /\ kind \notin SliceKinds) =>
        /\ err \notin {"nil", "panic"}
        /\ swaps = 0

(* C8: after one call of SortSliceByIndex, or one successful call of        *)
(* SortSliceByValue, a second call of the same operation with the same key  *)
(* seed leaves the slice as the first call left it.                         *)
C8_FixedPoint ==
    [][(/\ op \in {"SortSliceByIndex", "SortSliceByValue"}
        /\ err = "nil"
        /\ op' = op
        /\ hash' = hash) => slice' = slice]_vars

(* nodes without the element at index d *)
Remove(s, d) == [i \in 0 .. Len0(s) - 2 |-> IF i < d THEN s[i] ELSE s[i + 1]]

(* the ranking r without its entry d, as a sequence *)
RECURSIVE Without(_, _, _)
Without(r, d, k) ==
    IF k >= Len0(r) THEN <<>>
    ELSE (IF r[k] = d THEN <<>> ELSE <<r[k]>>) \o Without(r, d, k + 1)

(* the ranking r2 of Remove(nodes, d) in the indices of nodes, as a sequence *)
RECURSIVE MappedBack(_, _, _)
MappedBack(r2, d, k) ==
    IF k >= Len0(r2) THEN <<>>
    ELSE <<IF r2[k] < d THEN r2[k] ELSE r2[k] + 1>> \o MappedBack(r2, d, k + 1)

(* C9: for every removed index d, the ranking SortByWeight returns for      *)
(* nodes without element d, mapped back to the indices of nodes, is the     *)
(* ranking r of nodes with d deleted.                                       *)
C9_MinimalDisruption ==
    op = "SortByWeight" =>
        \A d \in DOMAIN nodes :
            \A r2 \in SortByWeight(Remove(nodes, d), hash) :
                MappedBack(r2, d, 0) = Without(rule, d, 0)

(* C10: SortSliceByValue on a slice of length 0 returns a nil error and     *)
(* performs no swap.                                                        *)
C10_EmptySlice ==
    (op = "SortSliceByValue" /\ kind \in SliceKinds /\ Len0(old) = 0) =>
        /\ err = "nil"
        /\ swaps = 0
        /\ slice = old

(* SortSliceByValue has been called on an empty slice of bytes *)
C10_Witness ==
    /\ op = "SortSliceByValue"
    /\ kind = "[]byte"
    /\ Len0(old) = 0
    /\ err = "nil"

(* C11: weight is commutative under 64-bit wraparound: weight(x, y) =       *)
(* weight(y, x).  The x and y are the values the calls pass to weight: the  *)
(* node identifiers, the per-element weights (of full width) and the key    *)
(* seed.                                                                    *)
C11_Commutative ==
    \A x, y \in {nodes[i] : i \in DOMAIN nodes} \cup {hash} :
        weight(x, y) = weight(y, x)

(* a call has weighed three elements of different full-width weights *)
C11_Witness ==
    /\ op = "SortSliceByValue"
    /\ Len0(nodes) = 3
    /\ \A a, b \in DOMAIN nodes : nodes[a] = nodes[b] => a = b
    /\ \A a \in DOMAIN nodes : nodes[a][8] > 0 /\ nodes[a] # hash
    /\ weight(nodes[0], hash) # weight(nodes[1], hash)

(* C12: SortByWeight breaks ties of weight by the original index ascending:  *)
(* whenever weight(nodes[a], hash) = weight(nodes[b], hash) with a < b,      *)
(* index a comes before index b in the result.                               *)
C12_TieBreak ==
    op = "SortByWeight" =>
        \A k, m \in DOMAIN rule :
            (/\ k < m
             /\ weight(nodes[rule[k]], hash) = weight(nodes[rule[m]], hash))
                => rule[k] < rule[m]

(* C13: SortSliceByValue on a slice of an interface element type in which    *)
(* some element, not necessarily the first, has no Hash method returns a     *)
(* non-nil error, leaves the slice unchanged and does not panic.             *)
C13_ErrorBeforeSwap ==
    (/\ op = "SortSliceByValue"
     /\ kind = "[]interface"
     /\ \E i \in DOMAIN old : ~IsHasher(old[i])) =>
        /\ err \notin {"nil", "panic"}
        /\ slice = old
        /\ swaps = 0


-----------------------------------------------------------------------------
(* sortByRule, statement by statement                                       *)

(* a caller of sortByRule: a slice of n ints and any permutation of         *)
(* 0 .. n - 1 as the rule, at the entry of the function with done the       *)
(* fresh make([]bool, length)                                               *)
InitRule ==
    /\ kind = "[]int"
    /\ \E n \in 0 .. MaxLen :
           /\ slice \in [0 .. n - 1 -> ElemsOf("[]int")]
           /\ rule \in Perms(n)
           /\ done = [k \in 0 .. n - 1 |-> FALSE]
    /\ hash = U64(0)
    /\ op = "sortByRule"
    /\ old = slice
    /\ nodes = Empty
    /\ err = "none"
    /\ swaps = 0
    /\ pc = "outer"
    /\ loop_i = 0
    /\ loop_j = 0

(* i < length fails: the function returns *)
OuterExit ==
    /\ pc = "outer"
    /\ ~(loop_i < Len0(rule))
    /\ pc' = "done"
    /\ UNCHANGED <<kind, slice, hash, op, old, nodes, rule, err, swaps,
                   loop_i, loop_j, done>>

(* if done[i] { continue } and the i++ of the outer loop *)
OuterSkip ==
    /\ pc = "outer"
    /\ loop_i < Len0(rule)
    /\ done[loop_i]
    /\ loop_i' = loop_i + 1
    /\ UNCHANGED <<kind, slice, hash, op, old, nodes, rule, err, swaps,
                   pc, loop_j, done>>

(* done[i] = true and the initialisation j := rule[i] of the inner loop *)
OuterEnter ==
    /\ pc = "outer"
    /\ loop_i < Len0(rule)
    /\ ~done[loop_i]
    /\ done' = [done EXCEPT ![loop_i] = TRUE]
    /\ loop_j' = rule[loop_i]
    /\ pc' = "inner"
    /\ UNCHANGED <<kind, slice, hash, op, old, nodes, rule, err, swaps, loop_i>>

(* an inner step whose post statement is j = rule[i]: the walk stays on    *)
(* the first element of the cycle                                          *)
InnerSwap_StuckWalk ==
    /\ pc = "inner"
    /\ ~done[rule[loop_j]]
    /\ swaps <= Len0(rule)
    /\ slice' = swap(slice, loop_i, loop_j)
    /\ done' = [done EXCEPT ![loop_j] = TRUE]
    /\ swaps' = swaps + 1
    /\ loop_j' = rule[loop_i]
    /\ UNCHANGED <<kind, hash, op, old, nodes, rule, err, pc, loop_i>>

(* !done[rule[j]] holds: the body swap(i, j); done[j] = true and the post  *)
(* statement j = rule[j]. The count of swaps is followed up to length + 1. *)
InnerSwap ==
    /\ pc = "inner"
    /\ ~done[rule[loop_j]]
    /\ swaps <= Len0(rule)
    /\ slice' = swap(slice, loop_i, loop_j)
    /\ done' = [done EXCEPT ![loop_j] = TRUE]
    /\ swaps' = swaps + 1
    /\ loop_j' = rule[loop_j]
    /\ UNCHANGED <<kind, hash, op, old, nodes, rule, err, pc, loop_i>>

(* !done[rule[j]] fails: the inner loop ends, then the i++ of the outer one *)
InnerExit ==
    /\ pc = "inner"
    /\ done[rule[loop_j]]
    /\ pc' = "outer"
    /\ loop_i' = loop_i + 1
    /\ UNCHANGED <<kind, slice, hash, op, old, nodes, rule, err, swaps,
                   loop_j, done>>

NextRule ==
    \/ OuterExit
    \/ OuterSkip
    \/ OuterEnter
    \/ InnerSwap
    \/ InnerExit

(* the function is one sequential run: while a statement remains, the next *)
(* one is executed                                                         *)
SpecRule == InitRule /\ [][NextRule]_vars /\ WF_vars(NextRule)

(* C14: sortByRule terminates for every length N >= 0 and every rule that   *)
(* is a permutation of [0, N): at every point of the run the indices it     *)
(* reads (i into done and rule, j into rule, rule[j] into done, i and j     *)
(* into the slice) are inside [0, N) and it has made at most N swaps, and   *)
(* the run reaches its return.                                              *)
C14_Terminates ==
    /\ [](/\ swaps <= Len0(rule)
          /\ pc = "outer" => loop_i \in 0 .. Len0(rule)
          /\ pc = "inner" =>
                 /\ loop_i \in DOMAIN done /\ loop_i \in DOMAIN slice
                 /\ loop_j \in DOMAIN rule /\ loop_j \in DOMAIN slice
                 /\ rule[loop_j] \in DOMAIN done)
    /\ <>(pc = "done")

(* a run over three elements has returned after at least one swap *)
C14_Witness ==
    /\ pc = "done"
    /\ Len0(rule) = 3
    /\ swaps >= 1

=============================================================================
